---------------------------- MODULE Spec2Model ----------------------------
(***************************************************************************)
(* Smart Waste Finder backend: the HTTP handlers of main.py over the       *)
(* document store, with the field validation of schemas.py.                *)
(*                                                                         *)
(* Representation.                                                         *)
(*  - A document or payload is a record (a Python dict).  Python's None    *)
(*    is <<>> and a present Optional value v is <<v>>.                     *)
(*  - Latitudes, longitudes and distances are fixed-point numbers with     *)
(*    KmPerDegree units per degree, so radius_km / 111.0 degrees is        *)
(*    exactly radius_km units, 90 degrees is 9990 and 180 degrees 19980.   *)
(*    Ratings are in tenths.  The seed's sample coordinates are rounded    *)
(*    to this grid.                                                        *)
(*  - An ObjectId is [oid |-> n]; str() of it is the decimal string of n.  *)
(*    The store numbers the documents of each collection from the          *)
(*    collection's own residue class, so every identifier is fresh.        *)
(*  - A collection is the sequence of its documents in insertion order,    *)
(*    which is the order find() returns them in.                           *)
(***************************************************************************)
EXTENDS Integers, Sequences, FiniteSets, TLC

VARIABLES
    db,        \* collection name -> sequence of stored documents
    request,   \* the last request handled
    response,  \* its response: [status, body]
    raised,    \* the exception create_document raised in it, or None
    prior,     \* what the request before the last one was
    workers    \* overlapping seed requests: worker -> position and locals

vars == <<db, request, response, raised, prior, workers>>

----------------------------------------------------------------------------
(* Bounds of the model *)

MaxCreated == 2       \* create-station requests that store a document
MaxFeedback == 1      \* submit-feedback requests that store a document
NumSeeders == 2       \* overlapping seed requests

(* Program constants *)

KmPerDegree == 111
LatMax == 90 * KmPerDegree
LngMax == 180 * KmPerDegree
RatingMax == 5 * 10
ListLimitDefault == 50
ListLimitMax == 200
NearbyLimitDefault == 10
NearbyLimitMax == 100
RecLimitDefault == 20
RecLimitMax == 100

None == <<>>
Some(v) == <<v>>
Collections == {"station", "recommendation", "recommendationfeedback"}

----------------------------------------------------------------------------
(* schemas.py *)

StationType == {"dump", "recycling", "ewaste", "compost", "hazmat"}

\* Mutant: le=90 is missing
ValidLatitudeNoUpper(v) == v >= -LatMax

ValidLatitude(v) == v >= -LatMax /\ v <= LatMax

ValidLongitude(v) == v >= -LngMax /\ v <= LngMax

\* Station(BaseModel): the Field constraints
ValidStation(p) ==
    /\ p.type \in StationType
    /\ ValidLatitude(p.latitude)
    /\ ValidLongitude(p.longitude)
    /\ (p.rating # None => p.rating[1] >= 0 /\ p.rating[1] <= RatingMax)
    /\ (p.review_count # None => p.review_count[1] >= 0)

\* RecommendationFeedback(BaseModel)
ValidFeedback(p) == p.action \in {"up", "down"}

----------------------------------------------------------------------------
(* The document store behind database.py *)

ObjectId(n) == [oid |-> n]

\* str(ObjectId)
Str(o) == ToString(o.oid)

\* The identifier the store gives the next document of a collection
CollIndex(coll) ==
    CASE coll = "station" -> 1
      [] coll = "recommendation" -> 2
      [] coll = "recommendationfeedback" -> 3

FreshId(d, coll) == Cardinality(Collections) * Len(d[coll]) + CollIndex(coll)

\* ObjectId(str): the identifier whose string form is s
ParseObjectId(d, coll, s) ==
    CHOOSE o \in {ObjectId(n) : n \in 1..FreshId(d, coll)} : Str(o) = s

\* create_document(collection, data): insert_one; the document gets a fresh
\* _id and goes to the end of the collection
create_document(d, coll, data) ==
    [d EXCEPT ![coll] = Append(@, ("_id" :> ObjectId(FreshId(d, coll))) @@ data)]

RECURSIVE InsertMany(_, _, _)
InsertMany(d, coll, docs) ==
    IF docs = <<>> THEN d
    ELSE InsertMany(create_document(d, coll, Head(docs)), coll, Tail(docs))

count_documents(d, coll) == Len(d[coll])

\* find_one({"_id": id}): the document, or None (the empty mapping here)
find_one(d, coll, id) ==
    LET hits == SelectSeq(d[coll], LAMBDA x : x["_id"] = id)
    IN  IF hits = <<>> THEN <<>> ELSE Head(hits)

\* What the case-insensitive $regex matches among the texts of the model
RegexTable ==
    { <<"city", "City Dump Yard">>, <<"elm", "123 Elm St">>,
      <<"depot", "Tech E-Waste Depot">>, <<"oak", "7 Oak Ln">> }

RegexMatchI(pattern, text) == <<pattern, text>> \in RegexTable

\* One document against a find() filter
Matches(doc, filter) ==
    /\ "type" \in DOMAIN filter => doc.type = filter.type
    /\ "$or" \in DOMAIN filter =>
          \E i \in DOMAIN filter["$or"] :
              LET c == filter["$or"][i]
              IN  \E k \in DOMAIN c : RegexMatchI(c[k]["$regex"], doc[k])
    /\ "latitude" \in DOMAIN filter =>
          /\ doc.latitude >= filter.latitude["$gte"]
          /\ doc.latitude <= filter.latitude["$lte"]
    /\ "longitude" \in DOMAIN filter =>
          /\ doc.longitude >= filter.longitude["$gte"]
          /\ doc.longitude <= filter.longitude["$lte"]

Take(s, n) == SubSeq(s, 1, IF n < Len(s) THEN n ELSE Len(s))

\* get_documents(collection, filter, limit): find(filter), capped at limit
get_documents(d, coll, filter, limit) ==
    LET found == SelectSeq(d[coll], LAMBDA x : Matches(x, filter))
    IN  IF limit = None THEN found ELSE Take(found, limit[1])


----------------------------------------------------------------------------
(* main.py: helpers *)

\* Mutant: id is added and _id is left in place
serialize_doc_keeping_id(doc) ==
    IF DOMAIN doc = {} THEN doc
    ELSE IF "_id" \in DOMAIN doc
         THEN [k \in DOMAIN doc \cup {"id"} |->
                   IF k = "id" THEN Str(doc["_id"]) ELSE doc[k]]
         ELSE doc

\* serialize_doc: a copy with _id renamed to id and turned into a string.
\* (No other field of a stored document holds an ObjectId.)
serialize_doc(doc) ==
    IF DOMAIN doc = {} THEN doc
    ELSE IF "_id" \in DOMAIN doc
         THEN [k \in (DOMAIN doc \ {"_id"}) \cup {"id"} |->
                   IF k = "id" THEN Str(doc["_id"]) ELSE doc[k]]
         ELSE doc

SerializeAll(docs) == [i \in DOMAIN docs |-> serialize_doc(docs[i])]

\* Python truthiness of an Optional[str] and of an Optional[float]
TruthyStr(v) == v # None /\ v[1] # ""

TruthyNum(v) == v # None /\ v[1] # 0

\* Query(ge=1, le=...) on limit
ValidLimit(limit, max) == limit >= 1 /\ limit <= max

ValidationError == [detail |-> "validation error"]

InsertError == "insert failed"

Reply(status, body) == [status |-> status, body |-> body]

\* The last request, as the next one will remember it
Outcome ==
    IF request.op # "seed_sample_data" THEN "other"
    ELSE IF response.status = 200 THEN "seed returned" ELSE "seed raised"

----------------------------------------------------------------------------
(* Inputs of the requests *)

Far == [name |-> "Polar Hazmat", type |-> "hazmat", address |-> "1 Ice Rd",
        latitude |-> LatMax, longitude |-> LngMax, rating |-> None,
        review_count |-> Some(0), phone |-> None, website |-> None,
        hours |-> None, services |-> <<>>]

Oak == [name |-> "Corner Compost", type |-> "compost", address |-> "7 Oak Ln",
        latitude |-> -LatMax, longitude |-> -LngMax, rating |-> Some(RatingMax),
        review_count |-> None, phone |-> None, website |-> None,
        hours |-> Some("9-5"), services |-> <<"food">>]

StationPayloads ==
    { Far, Oak,
      [Far EXCEPT !.latitude = LatMax + 1],
      [Far EXCEPT !.longitude = LngMax + 1],
      [Oak EXCEPT !.latitude = -LatMax - 1],
      [Oak EXCEPT !.longitude = -LngMax - 1],
      [Oak EXCEPT !.type = "landfill"],
      [Oak EXCEPT !.rating = Some(RatingMax + 1)],
      [Far EXCEPT !.review_count = Some(-1)] }

FeedbackPayloads ==
    { [item_id |-> "1", action |-> a, reason |-> None, user_id |-> None] :
        a \in {"up", "maybe"} }

\* A query point next to the sample stations
QueryPoint == [lat |-> 4192, lng |-> -13589]
QueryLat == QueryPoint.lat
QueryLng == QueryPoint.lng

NoBox == [lat |-> None, lng |-> None, radius_km |-> None]

ListRequests ==
    { [type |-> t, query |-> q, limit |-> ListLimitDefault] @@ NoBox :
        t \in {None, Some(""), Some("dump")}, q \in {None} }
    \cup
    { [type |-> None, query |-> Some("city"), limit |-> l] @@ NoBox :
        l \in {0, 1, ListLimitMax, ListLimitMax + 1} }
    \cup
    { [type |-> None, query |-> None, limit |-> ListLimitDefault,
       lat |-> Some(QueryLat), lng |-> Some(QueryLng), radius_km |-> r] :
        r \in {None, Some(-1), Some(0), Some(1)} }
    \cup
    { [type |-> None, query |-> None, limit |-> ListLimitDefault,
       lat |-> None, lng |-> Some(QueryLng), radius_km |-> Some(1)] }

NearbyRequests ==
    [lat : {QueryLat, 0}, lng : {QueryLng}, limit : {2, NearbyLimitDefault}]
    \cup
    [lat : {QueryLat}, lng : {QueryLng}, limit : {0, NearbyLimitMax + 1}]

RecLimits == {0, 1, RecLimitDefault, RecLimitMax + 1}

----------------------------------------------------------------------------
(* main.py: the read-only endpoints *)

Respond(req, resp) ==
    /\ request' = req
    /\ response' = resp
    /\ raised' = None
    /\ prior' = Outcome
    /\ UNCHANGED <<db, workers>>

read_root ==
    Respond([op |-> "read_root"],
            Reply(200, [message |-> "Smart Waste Finder backend is running"]))

health == Respond([op |-> "health"], Reply(200, [status |-> "ok"]))

\* /test: db.list_collection_names() names the collections that hold documents
test_database ==
    Respond([op |-> "test_database"],
            Reply(200, [database |-> "Connected & Working",
                        connection_status |-> "Connected",
                        collections |-> {c \in Collections : db[c] # <<>>}]))

get_schema ==
    Respond([op |-> "get_schema"],
            Reply(200, [items |-> <<"user", "station", "recommendation",
                                    "recommendationfeedback">>]))

\* filter_dict of list_stations
StationFilter(r) ==
    (IF TruthyStr(r.type) THEN [type |-> r.type[1]] ELSE <<>>)
    @@
    (IF TruthyStr(r.query)
     THEN "$or" :> << [name |-> ("$regex" :> r.query[1])],
                      [address |-> ("$regex" :> r.query[1])] >>
     ELSE <<>>)
    @@
    (IF r.lat # None /\ r.lng # None /\ TruthyNum(r.radius_km)
     THEN LET dlat == r.radius_km[1]
              dlng == r.radius_km[1]
          IN  [latitude |-> ("$gte" :> r.lat[1] - dlat) @@ ("$lte" :> r.lat[1] + dlat),
               longitude |-> ("$gte" :> r.lng[1] - dlng) @@ ("$lte" :> r.lng[1] + dlng)]
     ELSE <<>>)

list_stations ==
    \E r \in ListRequests :
        Respond([op |-> "list_stations"] @@ r,
                IF ~ValidLimit(r.limit, ListLimitMax)
                THEN Reply(422, ValidationError)
                ELSE Reply(200, [items |-> SerializeAll(
                         get_documents(db, "station", StationFilter(r), Some(r.limit)))]))

\* dist2 of nearby_stations; d.get(..., 0) for a missing coordinate.  The
\* except branch (1e12) needs a coordinate float() refuses, which no document
\* that passed Station's validation has.
dist2(d, lat, lng) ==
    LET la == IF "latitude" \in DOMAIN d THEN d.latitude ELSE 0
        lo == IF "longitude" \in DOMAIN d THEN d.longitude ELSE 0
    IN  (la - lat) * (la - lat) + (lo - lng) * (lo - lng)

\* Mutant: the sort descends
RECURSIVE InsertByKeyDescending(_, _, _, _)
InsertByKeyDescending(s, d, lat, lng) ==
    IF s = <<>> THEN <<d>>
    ELSE IF dist2(d, lat, lng) > dist2(Head(s), lat, lng)
         THEN <<d>> \o s
         ELSE <<Head(s)>> \o InsertByKeyDescending(Tail(s), d, lat, lng)

\* sorted(docs, key=...): a stable sort
RECURSIVE InsertByKey(_, _, _, _)
InsertByKey(s, d, lat, lng) ==
    IF s = <<>> THEN <<d>>
    ELSE IF dist2(d, lat, lng) < dist2(Head(s), lat, lng)
         THEN <<d>> \o s
         ELSE <<Head(s)>> \o InsertByKey(Tail(s), d, lat, lng)

RECURSIVE SortedByDist(_, _, _)
SortedByDist(docs, lat, lng) ==
    IF docs = <<>> THEN <<>>
    ELSE InsertByKey(SortedByDist(SubSeq(docs, 1, Len(docs) - 1), lat, lng),
                     docs[Len(docs)], lat, lng)

\* Mutant: the slice is taken before the sort
NearbyResultSliceFirst(d, lat, lng, limit) ==
    SerializeAll(SortedByDist(Take(get_documents(d, "station", <<>>, None), limit), lat, lng))

NearbyResult(d, lat, lng, limit) ==
    SerializeAll(Take(SortedByDist(get_documents(d, "station", <<>>, None), lat, lng), limit))

nearby_stations ==
    \E r \in NearbyRequests :
        Respond([op |-> "nearby_stations"] @@ r,
                IF ~ValidLimit(r.limit, NearbyLimitMax)
                THEN Reply(422, ValidationError)
                ELSE Reply(200, [items |-> NearbyResult(db, r.lat, r.lng, r.limit)]))

list_recommendations ==
    \E l \in RecLimits :
        Respond([op |-> "list_recommendations", limit |-> l],
                IF ~ValidLimit(l, RecLimitMax)
                THEN Reply(422, ValidationError)
                ELSE Reply(200, [items |-> SerializeAll(
                         get_documents(db, "recommendation", <<>>, Some(l)))]))

----------------------------------------------------------------------------
(* main.py: the insert endpoints.  A create_document call either inserts   *)
(* or raises; which one is the store's choice.                             *)

Fail(req, status, body, exc) ==
    /\ request' = req
    /\ response' = Reply(status, body)
    /\ raised' = exc
    /\ prior' = Outcome
    /\ UNCHANGED <<db, workers>>

\* Mutant: an upsert; a stored document with the payload's fields is replaced
CreatedUpsert(req, coll, payload) ==
    LET same(x) == \A k \in DOMAIN payload : x[k] = payload[k]
        kept == [db EXCEPT ![coll] = SelectSeq(@, LAMBDA x : ~same(x))]
        inserted_id == Str(ObjectId(FreshId(db, coll)))
        stored == [kept EXCEPT ![coll] =
                       Append(@, ("_id" :> ObjectId(FreshId(db, coll))) @@ payload)]
        doc == find_one(stored, coll, ParseObjectId(stored, coll, inserted_id))
    IN  /\ db' = stored
        /\ request' = req
        /\ response' = Reply(201, serialize_doc(doc))
        /\ raised' = None
        /\ prior' = Outcome
        /\ UNCHANGED workers

\* The body of a handler's try block after a successful create_document:
\* find_one by the returned id string, then serialize_doc
Created(req, coll, payload) ==
    LET inserted_id == Str(ObjectId(FreshId(db, coll)))
        stored == create_document(db, coll, payload)
        doc == find_one(stored, coll, ParseObjectId(stored, coll, inserted_id))
    IN  /\ db' = stored
        /\ request' = req
        /\ response' = Reply(201, serialize_doc(doc))
        /\ raised' = None
        /\ prior' = Outcome
        /\ UNCHANGED workers

create_station ==
    \E payload \in StationPayloads, ok \in BOOLEAN :
        LET req == [op |-> "create_station", payload |-> payload]
        IN  IF ~ValidStation(payload)
            THEN Fail(req, 422, ValidationError, None)
            ELSE IF ~ok
            THEN Fail(req, 400, [detail |-> InsertError], Some(InsertError))
            ELSE /\ Len(SelectSeq(db["station"],
                                   LAMBDA x : x.name \in {Far.name, Oak.name})) < MaxCreated
                 /\ Created(req, "station", payload)

submit_feedback ==
    \E payload \in FeedbackPayloads, ok \in BOOLEAN :
        LET req == [op |-> "submit_feedback", payload |-> payload]
        IN  IF ~ValidFeedback(payload)
            THEN Fail(req, 422, ValidationError, None)
            ELSE IF ~ok
            THEN Fail(req, 400, [detail |-> InsertError], Some(InsertError))
            ELSE /\ Len(db["recommendationfeedback"]) < MaxFeedback
                 /\ Created(req, "recommendationfeedback", payload)

SampleStation(name, type, address, lat, lng, rating, reviews, services) ==
    [name |-> name, type |-> type, address |-> address, latitude |-> lat,
     longitude |-> lng, rating |-> Some(rating), review_count |-> Some(reviews),
     phone |-> None, website |-> None, hours |-> None, services |-> services]

\* 37.7749, -122.4194 / 37.78, -122.41 / 37.76, -122.42 in fixed point
samples ==
    << SampleStation("GreenCycle Center", "recycling", "123 Elm St", 4193, -13589,
                     47, 128, <<"plastic", "paper", "metal">>),
       SampleStation("City Dump Yard", "dump", "45 Industrial Rd", 4194, -13588,
                     41, 63, <<"bulk", "construction">>),
       SampleStation("Tech E-Waste Depot", "ewaste", "9 Silicon Ave", 4191, -13589,
                     48, 204, <<"electronics", "batteries">>) >>

recs ==
    << [title |-> "Recycle plastics today",
        description |-> Some("Drop-off at GreenCycle before 6pm"),
        image |-> None, station_id |-> None, tags |-> <<"recycling", "plastic">>],
       [title |-> "Dispose e-waste safely",
        description |-> Some("Tech Depot accepts laptops"),
        image |-> None, station_id |-> None, tags |-> <<"ewaste">>] >>

\* Mutant: no emptiness check
SeedRowsAlways(d, coll, rows) == rows

\* Mutant: the station count decides for both collections
SeedRowsByStation(d, coll, rows) ==
    IF count_documents(d, "station") = 0 THEN rows ELSE <<>>

\* The rows seed_sample_data sets out to insert into a collection
SeedRows(d, coll, rows) == IF count_documents(d, coll) = 0 THEN rows ELSE <<>>

\* seed_sample_data run alone.  fault = n > 0: the n-th create_document call
\* of the request raises, and nothing catches it.
seed_sample_data ==
    \E fault \in 0..(Len(samples) + Len(recs)) :
        LET sRows == SeedRows(db, "station", samples)
            sFault == fault >= 1 /\ fault <= Len(sRows)
            sDone == IF sFault THEN fault - 1 ELSE Len(sRows)
            d1 == InsertMany(db, "station", SubSeq(sRows, 1, sDone))
            rRows == IF sFault THEN <<>> ELSE SeedRows(d1, "recommendation", recs)
            rFault == ~sFault /\ fault > Len(sRows) /\ fault <= Len(sRows) + Len(rRows)
            rDone == IF rFault THEN fault - Len(sRows) - 1 ELSE Len(rRows)
            d2 == InsertMany(d1, "recommendation", SubSeq(rRows, 1, rDone))
            inserted == sDone + rDone
        IN  /\ db' = d2
            /\ request' = [op |-> "seed_sample_data"]
            /\ IF sFault \/ rFault
               THEN /\ response' = Reply(500, [detail |-> "Internal Server Error"])
                    /\ raised' = Some(InsertError)
               ELSE /\ response' = Reply(200, [inserted |-> inserted])
                    /\ raised' = None
            /\ prior' = Outcome
            /\ UNCHANGED workers

----------------------------------------------------------------------------
(* Requests handled one at a time *)

Seeders == 1..NumSeeders

Init ==
    /\ db = [c \in Collections |-> <<>>]
    /\ request = [op |-> "none"]
    /\ response = Reply(0, <<>>)
    /\ raised = None
    /\ prior = "other"
    /\ workers = [w \in Seeders |-> [pc |-> "start", i |-> 0, inserted |-> 0]]

Next ==
    \/ read_root
    \/ health
    \/ test_database
    \/ get_schema
    \/ list_stations
    \/ create_station
    \/ nearby_stations
    \/ list_recommendations
    \/ submit_feedback
    \/ seed_sample_data

Spec == Init /\ [][Next]_vars

----------------------------------------------------------------------------
(* Overlapping seed requests: seed_sample_data one store call at a time.   *)
(* A worker is at "start" (before the station count), in "stations" (the   *)
(* first loop, about to insert samples[i]), at "check_recs" (before the    *)
(* recommendation count), in "recs" (the second loop), "done" (returned    *)
(* SeedResult(inserted)) or "failed" (a create_document call raised).      *)

Goto(w, pc, i, inserted) ==
    workers' = [workers EXCEPT ![w] = [pc |-> pc, i |-> i, inserted |-> inserted]]

SeedCountStations(w) ==
    /\ workers[w].pc = "start"
    /\ IF count_documents(db, "station") = 0
       THEN Goto(w, "stations", 1, workers[w].inserted)
       ELSE Goto(w, "check_recs", 0, workers[w].inserted)
    /\ UNCHANGED <<db, request, response, raised, prior>>

SeedInsertStation(w) ==
    /\ workers[w].pc = "stations"
    /\ db' = create_document(db, "station", samples[workers[w].i])
    /\ IF workers[w].i < Len(samples)
       THEN Goto(w, "stations", workers[w].i + 1, workers[w].inserted + 1)
       ELSE Goto(w, "check_recs", 0, workers[w].inserted + 1)
    /\ UNCHANGED <<request, response, raised, prior>>

SeedCountRecs(w) ==
    /\ workers[w].pc = "check_recs"
    /\ IF count_documents(db, "recommendation") = 0
       THEN Goto(w, "recs", 1, workers[w].inserted)
       ELSE Goto(w, "done", 0, workers[w].inserted)
    /\ UNCHANGED <<db, request, response, raised, prior>>

SeedInsertRec(w) ==
    /\ workers[w].pc = "recs"
    /\ db' = create_document(db, "recommendation", recs[workers[w].i])
    /\ IF workers[w].i < Len(recs)
       THEN Goto(w, "recs", workers[w].i + 1, workers[w].inserted + 1)
       ELSE Goto(w, "done", 0, workers[w].inserted + 1)
    /\ UNCHANGED <<request, response, raised, prior>>

SeedInsertRaises(w) ==
    /\ workers[w].pc \in {"stations", "recs"}
    /\ Goto(w, "failed", workers[w].i, workers[w].inserted)
    /\ UNCHANGED <<db, request, response, raised, prior>>

NextConc ==
    \/ \E w \in Seeders : SeedCountStations(w)
    \/ \E w \in Seeders : SeedInsertStation(w)
    \/ \E w \in Seeders : SeedCountRecs(w)
    \/ \E w \in Seeders : SeedInsertRec(w)
    \/ \E w \in Seeders : SeedInsertRaises(w)

SpecConc == Init /\ [][NextConc]_vars

----------------------------------------------------------------------------
(* Properties *)

Items == response.body.items

Answered(op) == request.op = op /\ response.status = 200

\* Squared planar distance of a returned station to the request's point
SqDist(item) ==
    (item.latitude - request.lat) * (item.latitude - request.lat)
    + (item.longitude - request.lng) * (item.longitude - request.lng)

\* Where the store holds the station a response item stands for
StorePos(item) ==
    CHOOSE k \in DOMAIN db["station"] : Str(db["station"][k]["_id"]) = item.id

Min(a, b) == IF a < b THEN a ELSE b

\* C2: the list a nearby-stations request returns is in non-decreasing order
\* of squared planar distance to the query point.
C2_NearbyOrdered ==
    Answered("nearby_stations") =>
        \A i \in 1..(Len(Items) - 1) : SqDist(Items[i]) <= SqDist(Items[i + 1])

\* A nearby answer of three or more stations, not all at one distance, whose
\* order is not the store's.
C2_Witness ==
    /\ Answered("nearby_stations")
    /\ Len(Items) >= 3
    /\ SqDist(Items[1]) < SqDist(Items[Len(Items)])
    /\ \E i \in DOMAIN Items : StorePos(Items[i]) # i

SuppliedBox ==
    request.lat # None /\ request.lng # None /\ request.radius_km # None

InBox(item) ==
    /\ item.latitude >= request.lat[1] - request.radius_km[1]
    /\ item.latitude <= request.lat[1] + request.radius_km[1]
    /\ item.longitude >= request.lng[1] - request.radius_km[1]
    /\ item.longitude <= request.lng[1] + request.radius_km[1]

\* C3: every station a list-stations request with lat, lng and radius_km
\* returns lies within radius_km/111 degrees of lat and of lng, for every
\* supplied radius_km, 0 included.
C3_BoxFilter ==
    Answered("list_stations") /\ SuppliedBox =>
        \A i \in DOMAIN Items : InBox(Items[i])

Stations == db["station"]

OutOfRange(p) ==
    \/ p.latitude < -LatMax \/ p.latitude > LatMax
    \/ p.longitude < -LngMax \/ p.longitude > LngMax

\* C4: a create-station request with latitude outside [-90, 90] or longitude
\* outside [-180, 180] is answered 422 and leaves the station collection as
\* it was; every stored station has its latitude and longitude in range.
C4_RangeValidated ==
    /\ [](\A i \in DOMAIN Stations : ~OutOfRange(Stations[i]))
    /\ [][request'.op = "create_station" /\ OutOfRange(request'.payload)
             => response'.status = 422 /\ db'["station"] = db["station"]]_vars

\* A rejected out-of-range payload, with stations at both ends of the range
\* stored.
C4_Witness ==
    /\ request.op = "create_station"
    /\ OutOfRange(request.payload)
    /\ response.status = 422
    /\ \E i, j \in DOMAIN Stations :
          /\ Stations[i].latitude = LatMax /\ Stations[i].longitude = LngMax
          /\ Stations[j].latitude = -LatMax /\ Stations[j].longitude = -LngMax

ReadOnly ==
    {"read_root", "health", "test_database", "get_schema", "list_stations",
     "nearby_stations", "list_recommendations"}

\* C5: a document in a collection is in it, with the same field values, after
\* every request; the read-only endpoints leave every collection as it was.
C5_NeverUpdatedOrDeleted ==
    [][/\ \A c \in Collections : \A i \in DOMAIN db[c] :
             \E j \in DOMAIN db'[c] : db'[c][j] = db[c][i]
       /\ request'.op \in ReadOnly => db' = db]_vars

\* A read answered after all three collections got documents, the station
\* collection through both seed and create-station.
C5_Witness ==
    /\ request.op \in ReadOnly
    /\ \A c \in Collections : db[c] # <<>>
    /\ Len(Stations) > Len(samples)

\* C6: a request in which a document insert raises ends 400 with the
\* exception's string as detail.
C6_InsertFailureIs400 ==
    raised # None =>
        response.status = 400 /\ response.body = [detail |-> raised[1]]

\* C7: a successful create-station appends one document to the station
\* collection and changes no other collection; the response is that document:
\* the payload's fields with their values, plus id (the string of _id), no _id.
C7_CreateReturnsStored ==
    [][request'.op = "create_station" /\ response'.status = 201 =>
          LET new == db'["station"][Len(db'["station"])]
              body == response'.body
              payload == request'.payload
          IN  /\ db'["station"] = Append(db["station"], new)
              /\ \A c \in Collections \ {"station"} : db'[c] = db[c]
              /\ DOMAIN new = DOMAIN payload \cup {"_id"}
              /\ DOMAIN body = DOMAIN payload \cup {"id"}
              /\ \A k \in DOMAIN payload : new[k] = payload[k] /\ body[k] = payload[k]
              /\ body.id = Str(new["_id"])
              /\ \A i \in DOMAIN db["station"] : db["station"][i]["_id"] # new["_id"]]_vars

\* A create-station answered 201 with the station collection already holding
\* the seeded samples.
C7_Witness ==
    /\ request.op = "create_station"
    /\ response.status = 201
    /\ Len(Stations) > Len(samples)
    /\ response.body.id = Str(Stations[Len(Stations)]["_id"])

Seeded == request'.op = "seed_sample_data"

Added(c) == Len(db'[c]) - Len(db[c])

SeedsWhenEmpty(c, rows) ==
    /\ db[c] = <<>> => db'[c] = InsertMany(db, c, rows)[c]
    /\ db[c] # <<>> => db'[c] = db[c]

C10_SeedOnceUnderOverlap ==
    (\A w \in Seeders : workers[w].pc = "done") =>
        /\ Len(db["station"]) = Len(samples)
        /\ Len(db["recommendation"]) = Len(recs)

=============================================================================
